---------------------------- MODULE Spec2Model ----------------------------
(***************************************************************************)
(* Model of the two pieces of shakayet/TS-Template under src/:             *)
(*   - config/strategies/github.strategy.template.ts: the conditionally    *)
(*     constructed GitHub OAuth strategy and its verify callback           *)
(*     (find-or-create / backfill of a user record);                       *)
(*   - helpers/jwtHelper.ts: createToken / verifyToken.                    *)
(*                                                                         *)
(* JavaScript values:                                                      *)
(*   - opaque strings (email, avatar, providerId, ...) are TLA+ strings;   *)
(*     Undefined stands for `undefined`, "" is the empty string;           *)
(*   - strings the code takes apart (displayName and what is derived from  *)
(*     it) are sequences of one-character strings; NoStr stands for        *)
(*     `undefined`;                                                        *)
(*   - arrays are sequences; NoList stands for an absent array.            *)
(***************************************************************************)
EXTENDS Integers, Sequences, FiniteSets, TLC

VARIABLES
    config,          \* config.oauth.github as read at module load
    loaded,          \* whether the module body (lines 28-89) has run
    githubStrategy,  \* the exported binding (line 25)
    store,           \* the User collection: a sequence of records, _id = index
    store0,          \* the User collection as it was before the first handshake
    hs,              \* one record per handshake dispatched to the verify callback
    now,             \* the wall clock, in seconds
    made,            \* the last createToken call: its arguments and what it gave
    out              \* the last verifyToken call: its arguments and what it gave

strategyVars == <<config, loaded, githubStrategy, store, store0, hs>>

codecVars == <<now, made, out>>

vars == <<strategyVars, codecVars>>

-----------------------------------------------------------------------------
(* Bounds *)

NumHandshakes == 2

MaxNameLen == 3

MaxClock == 3

MaxClaim == 2

Handshakes == 1..NumHandshakes

-----------------------------------------------------------------------------
(* JavaScript values and operators *)

Undefined == "undefined"
Null == "null"
NoStr == <<"undefined">>
NoList == <<[undefined |-> TRUE]>>
NullUser == [null |-> TRUE]
NoArg == [absent |-> TRUE]
NotYet == [pending |-> TRUE]
NoCall == [kind |-> "none"]
NullStrategy == [null |-> TRUE]
NoConfig == [undefined |-> TRUE]

\* truthiness of an opaque string
Truthy(s) == s # Undefined /\ s # Null /\ s # ""

\* a || b on opaque strings
Or(a, b) == IF Truthy(a) THEN a ELSE b

\* truthiness of a character-sequence string
TruthyS(s) == s # NoStr /\ s # <<>>

\* a || b on character-sequence strings
OrS(a, b) == IF TruthyS(a) THEN a ELSE b

\* list?.[0]?.value
FirstValue(list) ==
    IF list = NoList THEN Undefined
    ELSE IF Len(list) = 0 THEN Undefined
    ELSE list[1].value

Digit == <<"0", "1", "2", "3", "4", "5", "6", "7", "8", "9">>

RECURSIVE NatToString(_)
NatToString(n) ==
    IF n < 10 THEN Digit[n + 1]
    ELSE NatToString(n \div 10) \o Digit[(n % 10) + 1]

\* String(id): profile.id is a number or already a string
StringOf(id) == IF "num" \in DOMAIN id THEN NatToString(id.num) ELSE id.str

\* s.split(' ')
RECURSIVE Split(_)
Split(s) ==
    IF \A i \in 1..Len(s) : s[i] # " " THEN <<s>>
    ELSE LET i == CHOOSE k \in 1..Len(s) :
                      s[k] = " " /\ \A j \in 1..(k - 1) : s[j] # " "
         IN  <<SubSeq(s, 1, i - 1)>> \o Split(SubSeq(s, i + 1, Len(s)))

\* parts.join(' ')
RECURSIVE Join(_)
Join(parts) ==
    IF Len(parts) = 0 THEN <<>>
    ELSE IF Len(parts) = 1 THEN parts[1]
    ELSE parts[1] \o <<" ">> \o Join(Tail(parts))

StrUser == <<"U", "s", "e", "r">>

-----------------------------------------------------------------------------
(* The verify callback's pure parts *)

\* line 43: emails?.[0]?.value || profile.email
ResolveEmail(profile) == Or(FirstValue(profile.emails), profile.email)

\* lines 59, 75, 77: photos?.[0]?.value || profile.avatarUrl
ResolveAvatar(profile) == Or(FirstValue(profile.photos), profile.avatarUrl)

\* line 56: displayName || profile.login || 'User'
FullName(displayName, login) == OrS(displayName, OrS(login, StrUser))

\* line 57: displayName?.split(' ')[0] || 'User'
FirstName(displayName) ==
    OrS(IF displayName = NoStr THEN NoStr ELSE Split(displayName)[1], StrUser)

\* line 58: displayName?.split(' ').slice(1).join(' ') || ''
LastName(displayName) ==
    OrS(IF displayName = NoStr THEN NoStr ELSE Join(Tail(Split(displayName))),
        <<>>)

\* mutant: the provider's email is not taken as verified
CreateFieldsUnverified(profile, email) ==
    [ email      |-> email,
      name       |-> FullName(profile.displayName, profile.login),
      firstName  |-> FirstName(profile.displayName),
      lastName   |-> LastName(profile.displayName),
      avatar     |-> ResolveAvatar(profile),
      provider   |-> "github",
      providerId |-> StringOf(profile.id),
      verified   |-> FALSE,
      status     |-> "active",
      contact    |-> "",
      location   |-> Or(profile.location, ""),
      password   |-> Null ]

\* mutant: the created record is left without providerId
CreateFieldsNoProviderId(profile, email) ==
    [ email      |-> email,
      name       |-> FullName(profile.displayName, profile.login),
      firstName  |-> FirstName(profile.displayName),
      lastName   |-> LastName(profile.displayName),
      avatar     |-> ResolveAvatar(profile),
      provider   |-> "github",
      providerId |-> Undefined,
      verified   |-> TRUE,
      status     |-> "active",
      contact    |-> "",
      location   |-> Or(profile.location, ""),
      password   |-> Null ]

\* lines 54-67: the argument of User.create
CreateFields(profile, email) ==
    [ email      |-> email,
      name       |-> FullName(profile.displayName, profile.login),
      firstName  |-> FirstName(profile.displayName),
      lastName   |-> LastName(profile.displayName),
      avatar     |-> ResolveAvatar(profile),
      provider   |-> "github",
      providerId |-> StringOf(profile.id),
      verified   |-> TRUE,
      status     |-> "active",
      contact    |-> "",
      location   |-> Or(profile.location, ""),
      password   |-> Null ]

\* mutant: the avatar is assigned without the !user.avatar test
BackfillOverwritesAvatar(user, profile) ==
    LET linked == [user EXCEPT !.provider = "github",
                               !.providerId = StringOf(profile.id)]
    IN  IF Truthy(ResolveAvatar(profile))
        THEN [doc |-> [linked EXCEPT !.avatar = ResolveAvatar(profile)],
              mod |-> {"provider", "providerId", "avatar"}]
        ELSE [doc |-> linked, mod |-> {"provider", "providerId"}]

\* lines 71-78: the assignments to the found document; mod is the set of
\* paths the document has marked modified when save() is called
Backfill(user, profile) ==
    LET linked == [user EXCEPT !.provider = "github",
                               !.providerId = StringOf(profile.id)]
    IN  IF ~Truthy(user.avatar) /\ Truthy(ResolveAvatar(profile))
        THEN [doc |-> [linked EXCEPT !.avatar = ResolveAvatar(profile)],
              mod |-> {"provider", "providerId", "avatar"}]
        ELSE [doc |-> linked, mod |-> {"provider", "providerId"}]

-----------------------------------------------------------------------------
(* The persistence service: the User model is not part of src/ *)

\* the unique index on email
DuplicateKey(st, fields) == \E i \in 1..Len(st) : st[i].email = fields.email

\* User.findOne({ email }): the first matching record, or null
User_findOne(st, email) ==
    IF \E i \in 1..Len(st) : st[i].email = email
    THEN st[CHOOSE i \in 1..Len(st) :
                st[i].email = email /\ \A j \in 1..(i - 1) : st[j].email # email]
    ELSE NullUser

\* User.create(fields): the inserted document
NewDoc(st, fields) ==
    [f \in DOMAIN fields \cup {"_id"} |->
        IF f = "_id" THEN Len(st) + 1 ELSE fields[f]]

\* user.save(): writes the modified paths of the document to its record
Doc_save(st, doc, mod) ==
    [st EXCEPT ![doc._id] =
        [f \in DOMAIN @ |-> IF f \in mod THEN doc[f] ELSE @[f]]]

-----------------------------------------------------------------------------
(* The verify callback, lines 39-87 *)

\* done(error, user) / done(error)
Done(s, error, user) ==
    [s EXCEPT !.pc = "done",
              !.done = Append(@, [error |-> error, user |-> user])]

\* mutant: no try/catch around the awaits
CatchMissing(s, error) == [s EXCEPT !.pc = "done", !.uncaught = TRUE]

\* lines 84-86: catch (error) { return done(error); }
Catch(s, error) == Done(s, error, NoArg)

\* a store operation rejects: the await throws inside the try block
Throw(s, error) == Catch([s EXCEPT !.raised = error], error)

\* mutant: the !email test is missing
BeginWithoutEmailCheck(s) ==
    [s EXCEPT !.pc = "findOne", !.email = ResolveEmail(s.profile)]

\* lines 41-50: up to the first await
Begin(s) ==
    LET email == ResolveEmail(s.profile)
    IN  IF ~Truthy(email)
        THEN Done(s, "No email provided by GitHub", NoArg)
        ELSE [s EXCEPT !.pc = "findOne", !.email = email]

\* mutant: the !user.providerId test is missing
AfterFindAlwaysBackfills(s, user) ==
    LET t == [s EXCEPT !.found = user, !.user = user]
    IN  IF user = NullUser
        THEN [t EXCEPT !.pc = "create", !.creates = @ + 1]
        ELSE LET b == Backfill(user, s.profile)
             IN  [t EXCEPT !.pc = "save", !.saves = @ + 1,
                           !.user = b.doc, !.mod = b.mod]

\* lines 50-83: from the resolution of findOne to the next await or to done
AfterFind(s, user) ==
    LET t == [s EXCEPT !.found = user, !.user = user]
    IN  IF user = NullUser
        THEN [t EXCEPT !.pc = "create", !.creates = @ + 1]
        ELSE IF ~Truthy(user.providerId)
        THEN LET b == Backfill(user, s.profile)
             IN  [t EXCEPT !.pc = "save", !.saves = @ + 1,
                           !.user = b.doc, !.mod = b.mod]
        ELSE Done(t, Null, user)

\* lines 54-83: create resolved
AfterCreate(s, doc) == Done([s EXCEPT !.user = doc], Null, doc)

\* lines 79-83: save resolved
AfterSave(s) == Done(s, Null, s.user)

-----------------------------------------------------------------------------
(* Inputs *)

Ids == {[num |-> 4512], [str |-> "77"]}

NameAda == <<"A", "d", "a", " ", "L">>

EmailCases ==
    { <<NoList, Undefined>>, <<<<>>, Undefined>>, <<<<>>, "">>,
      <<<<[value |-> "e1"]>>, Undefined>>, <<<<>>, "e2">>,
      <<<<[value |-> "e1"]>>, "e2">> }

AvatarCases ==
    { <<<<>>, Undefined>>, <<<<[value |-> "p1"]>>, Undefined>>,
      <<<<>>, "p2">>, <<<<[value |-> "p1"]>>, "p2">> }

Profile(id, displayName, login, ec, ac, location) ==
    [ id |-> id, displayName |-> displayName, login |-> login,
      emails |-> ec[1], email |-> ec[2],
      photos |-> ac[1], avatarUrl |-> ac[2], location |-> location ]

\* a record as another sign-up path left it
Existing(id, email, providerId, avatar) ==
    [ _id |-> id, email |-> email,
      name |-> <<"O", "l", "d">>, firstName |-> <<"O">>, lastName |-> <<"l", "d">>,
      avatar |-> avatar,
      provider |-> IF Truthy(providerId) THEN "google" ELSE "local",
      providerId |-> providerId,
      verified |-> FALSE, status |-> "active", contact |-> "c",
      location |-> "loc0",
      password |-> IF Truthy(providerId) THEN Null ELSE "hash" ]

Configs ==
    {NoConfig} \cup
    [clientID : {"", "cid"}, clientSecret : {"", "sec"}, callbackURL : {"", "url"}]

Fresh(profile) ==
    [ pc |-> "idle", profile |-> profile, email |-> Undefined,
      user |-> NullUser, found |-> NotYet, mod |-> {},
      done |-> <<>>, creates |-> 0, saves |-> 0,
      raised |-> Null, uncaught |-> FALSE ]

-----------------------------------------------------------------------------
(* Actions *)

\* mutant: clientSecret is not tested
ConstructedWithoutSecret(cfg) ==
    /\ cfg # NoConfig
    /\ Truthy(cfg.clientID)

\* lines 28-38: the exported binding is set when the module is loaded
Constructed(cfg) ==
    /\ cfg # NoConfig
    /\ Truthy(cfg.clientID)
    /\ Truthy(cfg.clientSecret)

LoadModule ==
    /\ ~loaded
    /\ loaded' = TRUE
    /\ githubStrategy' =
          IF Constructed(config)
          THEN [clientID |-> config.clientID,
                clientSecret |-> config.clientSecret,
                callbackURL |-> config.callbackURL]
          ELSE NullStrategy
    /\ UNCHANGED <<config, store, store0, hs, codecVars>>

\* passport dispatches a handshake result to the verify callback
Verify(h) ==
    /\ githubStrategy # NullStrategy
    /\ hs[h].pc = "idle"
    /\ hs' = [hs EXCEPT ![h] = Begin(@)]
    /\ UNCHANGED <<config, loaded, githubStrategy, store, store0, codecVars>>

FindOneResolves(h) ==
    /\ hs[h].pc = "findOne"
    /\ hs' = [hs EXCEPT ![h] = AfterFind(@, User_findOne(store, hs[h].email))]
    /\ UNCHANGED <<config, loaded, githubStrategy, store, store0, codecVars>>

FindOneRejects(h) ==
    /\ hs[h].pc = "findOne"
    /\ hs' = [hs EXCEPT ![h] = Throw(@, "findOne failed")]
    /\ UNCHANGED <<config, loaded, githubStrategy, store, store0, codecVars>>

CreateResolves(h) ==
    /\ hs[h].pc = "create"
    /\ LET fields == CreateFields(hs[h].profile, hs[h].email)
       IN  /\ ~DuplicateKey(store, fields)
           /\ store' = Append(store, NewDoc(store, fields))
           /\ hs' = [hs EXCEPT ![h] = AfterCreate(@, NewDoc(store, fields))]
    /\ UNCHANGED <<config, loaded, githubStrategy, store0, codecVars>>

CreateRejectsDuplicate(h) ==
    /\ hs[h].pc = "create"
    /\ DuplicateKey(store, CreateFields(hs[h].profile, hs[h].email))
    /\ hs' = [hs EXCEPT ![h] = Throw(@, "E11000 duplicate key")]
    /\ UNCHANGED <<config, loaded, githubStrategy, store, store0, codecVars>>

CreateRejects(h) ==
    /\ hs[h].pc = "create"
    /\ hs' = [hs EXCEPT ![h] = Throw(@, "create failed")]
    /\ UNCHANGED <<config, loaded, githubStrategy, store, store0, codecVars>>

SaveResolves(h) ==
    /\ hs[h].pc = "save"
    /\ store' = Doc_save(store, hs[h].user, hs[h].mod)
    /\ hs' = [hs EXCEPT ![h] = AfterSave(@)]
    /\ UNCHANGED <<config, loaded, githubStrategy, store0, codecVars>>

SaveRejects(h) ==
    /\ hs[h].pc = "save"
    /\ hs' = [hs EXCEPT ![h] = Throw(@, "save failed")]
    /\ UNCHANGED <<config, loaded, githubStrategy, store, store0, codecVars>>

Next ==
    \/ LoadModule
    \/ \E h \in Handshakes : Verify(h)
    \/ \E h \in Handshakes : FindOneResolves(h)
    \/ \E h \in Handshakes : FindOneRejects(h)
    \/ \E h \in Handshakes : CreateResolves(h)
    \/ \E h \in Handshakes : CreateRejectsDuplicate(h)
    \/ \E h \in Handshakes : CreateRejects(h)
    \/ \E h \in Handshakes : SaveResolves(h)
    \/ \E h \in Handshakes : SaveRejects(h)

\* profiles that differ in id and in where the email comes from
Profiles ==
    { Profile(id, NameAda, NoStr, ec, <<<<[value |-> "p1"]>>, Undefined>>, Undefined) :
        id \in Ids, ec \in EmailCases }

\* profiles for one email that differ in id and in where the avatar comes from
AvatarProfiles ==
    { Profile(id, NameAda, NoStr, <<<<[value |-> "e1"]>>, Undefined>>, ac, "loc1") :
        id \in Ids, ac \in AvatarCases }

Stores ==
    {<<>>} \cup
    { <<Existing(1, "e1", pid, av)>> :
        pid \in {Undefined, "g-1"}, av \in {Undefined, "p0"} }
    \cup { <<Existing(1, "e2", "g-2", "p0"), Existing(2, "e1", Undefined, Undefined)>> }

InitWith(profiles) ==
    /\ config \in Configs
    /\ loaded = FALSE
    /\ githubStrategy = NullStrategy
    /\ store \in Stores
    /\ store0 = store
    /\ hs \in [Handshakes -> {Fresh(p) : p \in profiles}]
    /\ now = 0
    /\ made = NoCall
    /\ out = NoCall

\* every handshake carries its own profile
Init == InitWith(Profiles)

Spec == Init /\ [][Next]_vars

InitAvatar == InitWith(AvatarProfiles)

SpecAvatar == InitAvatar /\ [][Next]_vars

\* every handshake carries the same profile
InitSame ==
    /\ InitWith(Profiles \cup AvatarProfiles)
    /\ \A h \in Handshakes : hs[h].profile = hs[1].profile

SpecSame == InitSame /\ [][Next]_vars

-----------------------------------------------------------------------------
(* Properties of the verify callback *)

Succeeded(h) == hs[h].pc = "done" /\ hs[h].raised = Null /\ hs[h].found # NotYet

Unlinked(u) == u # NotYet /\ u # NullUser /\ ~Truthy(u.providerId)

Linked(u) == u # NotYet /\ u # NullUser /\ Truthy(u.providerId)

Stepped(h) == hs'[h] # hs[h]

\* C1: a handshake with a resolved email whose findOne returned no record
\* issues exactly one User.create and no save; unless a store operation
\* rejects, the created record has password = null, verified = true,
\* status = 'active', provider = 'github', providerId = String(profile.id),
\* is in the store and is the user handed to done(null, user).
C1_CreatePath ==
    \A h \in Handshakes :
        hs[h].found = NullUser =>
            /\ Truthy(hs[h].email)
            /\ hs[h].creates = 1
            /\ hs[h].saves = 0
            /\ hs[h].pc \in {"create", "done"}
            /\ Succeeded(h) =>
                  LET u == hs[h].user
                  IN  /\ hs[h].done = <<[error |-> Null, user |-> u]>>
                      /\ u.email = hs[h].email
                      /\ u.password = Null
                      /\ u.verified = TRUE
                      /\ u.status = "active"
                      /\ u.provider = "github"
                      /\ u.providerId = StringOf(hs[h].profile.id)
                      /\ u._id \in 1..Len(store)
                      /\ store[u._id] = u
                      /\ Len(store) > Len(store0)

C1_Witness ==
    \E h \in Handshakes :
        /\ hs[h].found = NullUser
        /\ Succeeded(h)
        /\ hs[h].profile.id = [num |-> 4512]
        /\ hs[h].user.providerId = "4512"
        /\ hs[h].user.email = "e2"
        /\ store[Len(store)] = hs[h].user

C3_AlreadyLinked ==
    /\ [](\A h \in Handshakes :
            Linked(hs[h].found) =>
                /\ hs[h].creates = 0
                /\ hs[h].saves = 0
                /\ hs[h].pc = "done"
                /\ hs[h].user = hs[h].found
                /\ hs[h].done = <<[error |-> Null, user |-> hs[h].found]>>)
    /\ [][\A h \in Handshakes :
            (Stepped(h) /\ Linked(hs'[h].found)) => store' = store]_vars

C3_Witness ==
    \E h \in Handshakes :
        /\ Linked(hs[h].found)
        /\ hs[h].pc = "done"
        /\ hs[h].found.providerId = "g-1"
        /\ Len(hs[h].done) = 1

\* the precondition of C4, read off the profile
NoEmail(profile) ==
    /\ profile.emails = NoList \/ profile.emails = <<>>
    /\ profile.email = Undefined

\* C4: a handshake whose profile has empty or missing emails and no fallback
\* email field calls done once, with the error 'No email provided by GitHub'
\* and no user; no lookup is made, nothing is created, saved or changed.
C4_NoEmail ==
    /\ [](\A h \in Handshakes :
            (NoEmail(hs[h].profile) /\ hs[h].pc # "idle") =>
                /\ hs[h].pc = "done"
                /\ hs[h].done = <<[error |-> "No email provided by GitHub",
                                   user |-> NoArg]>>
                /\ hs[h].found = NotYet
                /\ hs[h].user = NullUser
                /\ hs[h].creates = 0
                /\ hs[h].saves = 0)
    /\ [][\A h \in Handshakes :
            (Stepped(h) /\ NoEmail(hs[h].profile)) => store' = store]_vars

C4_Witness ==
    \E h, g \in Handshakes :
        /\ hs[h].profile.emails = <<>> /\ hs[h].profile.email = Undefined
        /\ hs[g].profile.emails = NoList /\ hs[g].profile.email = Undefined
        /\ hs[h].pc = "done" /\ hs[g].pc = "done"
        /\ Len(hs[h].done) = 1 /\ Len(hs[g].done) = 1
        /\ store = store0

\* C5: when findOne, create or save rejects, done is called once, with
\* exactly the error raised and no user, and nothing escapes the handler.
C5_ErrorsReachDone ==
    \A h \in Handshakes :
        /\ ~hs[h].uncaught
        /\ hs[h].raised # Null =>
              /\ hs[h].pc = "done"
              /\ hs[h].done = <<[error |-> hs[h].raised, user |-> NoArg]>>

C5_Witness ==
    \E h, g \in Handshakes :
        /\ hs[h].raised = "save failed"
        /\ hs[g].raised \in {"create failed", "E11000 duplicate key"}
        /\ hs[h].pc = "done" /\ hs[g].pc = "done"

\* C6 as claimed: the strategy is constructed only if clientID, clientSecret
\* and callbackURL are all present and non-empty.
C6_AllThreeRequired ==
    githubStrategy # NullStrategy =>
        /\ config # NoConfig
        /\ Truthy(config.clientID)
        /\ Truthy(config.clientSecret)
        /\ Truthy(config.callbackURL)

\* C6 as amended: once the module is loaded, the strategy is constructed
\* exactly if config.oauth.github is present with a non-empty clientID and a
\* non-empty clientSecret (callbackURL is passed on unchecked); otherwise
\* githubStrategy stays null and no handshake is ever handled.
C6_CredentialsRequired ==
    /\ githubStrategy # NullStrategy <=>
          /\ loaded
          /\ config # NoConfig
          /\ config.clientID # ""
          /\ config.clientSecret # ""
    /\ githubStrategy # NullStrategy =>
          /\ githubStrategy.clientID = config.clientID
          /\ githubStrategy.clientSecret = config.clientSecret
          /\ githubStrategy.callbackURL = config.callbackURL
    /\ githubStrategy = NullStrategy =>
          /\ store = store0
          /\ \A h \in Handshakes : hs[h].pc = "idle"

C6_Witness ==
    /\ loaded
    /\ githubStrategy # NullStrategy
    /\ config.callbackURL = ""
    /\ \E h \in Handshakes : hs[h].pc = "done"

\* what one handshake carrying `profile` leaves of the store st
OneHandshake(st, profile) ==
    LET email == ResolveEmail(profile)
        user  == User_findOne(st, email)
    IN  IF ~Truthy(email) THEN st
        ELSE IF user = NullUser
        THEN Append(st, NewDoc(st, CreateFields(profile, email)))
        ELSE IF ~Truthy(user.providerId)
        THEN Doc_save(st, Backfill(user, profile).doc, Backfill(user, profile).mod)
        ELSE st

\* C7: with every handshake carrying the same profile, in any interleaving,
\* the store is always either as it was or as one handshake leaves it, it is
\* the latter as soon as one handshake has succeeded, and no two records
\* share an email.
C7_Idempotent ==
    /\ \A i, j \in 1..Len(store) : i # j => store[i].email # store[j].email
    /\ store \in {store0, OneHandshake(store0, hs[1].profile)}
    /\ (\E h \in Handshakes : Succeeded(h))
          => store = OneHandshake(store0, hs[1].profile)

C7_Witness ==
    /\ \A h \in Handshakes : hs[h].pc = "done"
    /\ \E h, g \in Handshakes :
          /\ Succeeded(h)
          /\ hs[g].raised = "E11000 duplicate key"
    /\ Len(store) = Len(store0) + 1

-----------------------------------------------------------------------------
(* Name derivation on the create path *)

Chars == {"a", " ", "\t"}

Whitespace == {" ", "\t"}

NameAdaLovelace == <<"A", "d", "a", " ", "L", "o", "v", "e", "l", "a", "c", "e">>

LoginAda99 == <<"a", "d", "a", "9", "9">>

DisplayNames ==
    {NoStr, NameAdaLovelace} \cup UNION { [1..n -> Chars] : n \in 0..MaxNameLen }

NameProfiles ==
    { Profile([num |-> 4512], d, login, <<<<[value |-> "e1"]>>, Undefined>>,
              <<<<>>, Undefined>>, Undefined) :
        d \in DisplayNames, login \in {NoStr, <<>>, LoginAda99} }

\* the first handshake carries any display name and login, the others the
\* same fixed profile
InitNames ==
    /\ InitWith(NameProfiles)
    /\ \A h \in Handshakes \ {1} :
          hs[h].profile = Profile([num |-> 4512], NameAdaLovelace, NoStr,
                                  <<<<[value |-> "e1"]>>, Undefined>>,
                                  <<<<>>, Undefined>>, Undefined)

SpecNames == InitNames /\ [][Next]_vars

\* the whitespace-delimited tokens of a string
RECURSIVE Tokens(_)
Tokens(s) ==
    IF s = <<>> THEN <<>>
    ELSE IF s[1] \in Whitespace THEN Tokens(Tail(s))
    ELSE LET n == CHOOSE k \in 1..Len(s) :
                      /\ \A j \in 1..k : s[j] \notin Whitespace
                      /\ k = Len(s) \/ s[k + 1] \in Whitespace
         IN  <<SubSeq(s, 1, n)>> \o Tokens(SubSeq(s, n + 1, Len(s)))

Created(h) == hs[h].found = NullUser /\ Succeeded(h)

\* C10 as claimed: on the create path firstName is the first
\* whitespace-delimited token of displayName (else 'User'), lastName the
\* remaining tokens joined by a single space (else ''), and name is
\* displayName, else login, else 'User'.
C10_NameDerivation ==
    \A h \in Handshakes :
        Created(h) =>
            LET d    == hs[h].profile.displayName
                toks == IF d = NoStr THEN <<>> ELSE Tokens(d)
                u    == hs[h].user
            IN  /\ u.firstName = IF toks = <<>> THEN StrUser ELSE toks[1]
                /\ u.lastName = IF toks = <<>> THEN <<>> ELSE Join(Tail(toks))
                /\ u.name = IF TruthyS(d) THEN d
                            ELSE IF TruthyS(hs[h].profile.login)
                            THEN hs[h].profile.login
                            ELSE StrUser

\* display names whose words are separated by exactly one space each
Regular(d) ==
    /\ d # NoStr
    /\ d # <<>>
    /\ \A i \in 1..Len(d) : d[i] # "\t"
    /\ d[1] # " " /\ d[Len(d)] # " "
    /\ \A i \in 1..(Len(d) - 1) : ~(d[i] = " " /\ d[i + 1] = " ")

\* the part of C10 the code satisfies: absent, empty and regular display
\* names, the two examples of the specification among them
C10_RegularNames ==
    \A h \in Handshakes :
        Created(h) =>
            LET d    == hs[h].profile.displayName
                toks == IF d = NoStr THEN <<>> ELSE Tokens(d)
                u    == hs[h].user
            IN  /\ (d = NoStr \/ d = <<>> \/ Regular(d)) =>
                      /\ u.firstName = IF toks = <<>> THEN StrUser ELSE toks[1]
                      /\ u.lastName = IF toks = <<>> THEN <<>> ELSE Join(Tail(toks))
                /\ u.name = IF TruthyS(d) THEN d
                            ELSE IF TruthyS(hs[h].profile.login)
                            THEN hs[h].profile.login
                            ELSE StrUser
                /\ d = NameAdaLovelace =>
                      /\ u.firstName = <<"A", "d", "a">>
                      /\ u.lastName = <<"L", "o", "v", "e", "l", "a", "c", "e">>
                /\ (d = NoStr /\ hs[h].profile.login = LoginAda99) =>
                      /\ u.name = LoginAda99
                      /\ u.firstName = StrUser

-----------------------------------------------------------------------------
(* jwtHelper: createToken / verifyToken over jsonwebtoken's sign / verify *)

ClaimKeys == {"id", "iat", "exp"}

\* a payload is a mapping from some keys to numbers
Payloads == UNION { [D -> 0..MaxClaim] : D \in SUBSET ClaimKeys }

Secrets == {"", "s1", "s2"}

ExpireTimes == {"1s", "2s", "2000", "", "soon"}

Has(p, k) == k \in DOMAIN p

\* p with key k set to v
With(p, k, v) == [x \in DOMAIN p \cup {k} |-> IF x = k THEN v ELSE p[x]]

\* the timespan a duration expression stands for, in seconds; -1 when it
\* is not a duration (a bare number counts milliseconds)
Timespan(e) ==
    CASE e = "1s" -> 1
      [] e = "2s" -> 2
      [] e = "2000" -> 2
      [] OTHER -> -1

\* the HS256 signature of the claims under a secret, as an ideal MAC
Signature(secret, claims) == [key |-> secret, msg |-> claims]

Raised(error) == [ok |-> FALSE, error |-> error]

\* jwt.sign(payload, secret, options) at time t
jwt_sign(payload, secret, options, t) ==
    IF secret = "" THEN Raised("secretOrPrivateKey must have a value")
    ELSE IF Has(payload, "exp") /\ options.expiresIn # Undefined
    THEN Raised("payload already has an exp property")
    ELSE IF options.expiresIn = ""
    THEN Raised("expiresIn should be a timespan")
    ELSE LET timestamp == IF Has(payload, "iat") /\ payload["iat"] # 0
                          THEN payload["iat"] ELSE t
             stamped   == With(payload, "iat", timestamp)
         IN  IF options.expiresIn = Undefined
             THEN [ok |-> TRUE,
                   token |-> [claims |-> stamped,
                              sig |-> Signature(secret, stamped)]]
             ELSE IF Timespan(options.expiresIn) < 0
             THEN Raised("expiresIn should be a timespan")
             ELSE LET claims == With(stamped, "exp",
                                     timestamp + Timespan(options.expiresIn))
                  IN  [ok |-> TRUE,
                       token |-> [claims |-> claims,
                                  sig |-> Signature(secret, claims)]]

\* jwt.verify(token, secret) at time t
jwt_verify(token, secret, t) ==
    IF secret = "" THEN Raised("secret or public key must be provided")
    ELSE IF token.sig # Signature(secret, token.claims)
    THEN Raised("invalid signature")
    ELSE IF Has(token.claims, "exp") /\ t >= token.claims["exp"]
    THEN Raised("jwt expired")
    ELSE [ok |-> TRUE, payload |-> token.claims]

\* mutant: the options object is not passed to jwt.sign
createTokenWithoutOptions(payload, secret, expireTime, t) ==
    jwt_sign(payload, secret, [expiresIn |-> Undefined], t)

\* lines 3-10
createToken(payload, secret, expireTime, t) ==
    jwt_sign(payload, secret, [expiresIn |-> expireTime], t)

\* mutant: the token is decoded (jwt.decode), not verified
verifyTokenDecodes(token, secret, t) == [ok |-> TRUE, payload |-> token.claims]

\* lines 12-14
verifyToken(token, secret, t) == jwt_verify(token, secret, t)

\* one token is created per behaviour, at any time
CreateToken ==
    \E payload \in Payloads, secret \in Secrets, expireTime \in ExpireTimes :
        /\ made = NoCall
        /\ made' = [kind |-> "createToken", payload |-> payload,
                    secret |-> secret, expireTime |-> expireTime, at |-> now,
                    result |-> createToken(payload, secret, expireTime, now)]
        /\ out' = NoCall
        /\ UNCHANGED <<now, strategyVars>>

VerifyToken ==
    \E secret \in Secrets :
        /\ made # NoCall
        /\ made.result.ok
        /\ out' = [kind |-> "verifyToken", secret |-> secret, at |-> now,
                   result |-> verifyToken(made.result.token, secret, now)]
        /\ UNCHANGED <<now, made, strategyVars>>

Tick ==
    /\ now < MaxClock
    /\ now' = now + 1
    /\ UNCHANGED <<made, out, strategyVars>>

NextCodec == CreateToken \/ VerifyToken \/ Tick

InitCodec ==
    /\ config = NoConfig
    /\ loaded = FALSE
    /\ githubStrategy = NullStrategy
    /\ store = <<>>
    /\ store0 = <<>>
    /\ hs = [h \in Handshakes |-> Fresh(Profile([num |-> 4512], NoStr, NoStr,
                                          <<NoList, Undefined>>,
                                          <<<<>>, Undefined>>, Undefined))]
    /\ now = 0
    /\ made = NoCall
    /\ out = NoCall

SpecCodec == InitCodec /\ [][NextCodec]_vars

\* verifyToken was called, with the secret the token was created with
SameSecret == out # NoCall /\ out.secret = made.secret

\* the token's exp claim; a token without one never expires
Expiry(token) ==
    IF Has(token.claims, "exp") THEN token.claims["exp"] ELSE MaxClock + 1

\* ... and before the token's expiry
BeforeExpiry == out.at < Expiry(made.result.token)

\* C8 as claimed: verifyToken(createToken(payload, secret, expireTime),
\* secret), evaluated before the expiry, returns a payload equal to the
\* original payload.
C8_RoundTripEqual ==
    (SameSecret /\ BeforeExpiry) =>
        /\ out.result.ok
        /\ out.result.payload = made.payload

\* C8 as amended: whenever createToken returns a token, verifyToken with the
\* same secret before the expiry returns the original payload with the
\* claims iat and exp set: every other key is as in the original, iat is
\* the payload's own non-zero iat, else the time of issue, and exp is iat
\* plus the duration.
C8_RoundTripExtended ==
    /\ (made # NoCall) =>
          (made.result.ok <=> /\ made.secret # ""
                              /\ ~Has(made.payload, "exp")
                              /\ made.expireTime \in {"1s", "2s", "2000"})
    /\ (SameSecret /\ BeforeExpiry) =>
        /\ out.result.ok
        /\ LET got  == out.result.payload
               orig == made.payload
           IN  /\ DOMAIN got = DOMAIN orig \cup {"iat", "exp"}
               /\ \A k \in DOMAIN orig \ {"iat", "exp"} : got[k] = orig[k]
               /\ got["iat"] = IF Has(orig, "iat") /\ orig["iat"] # 0
                               THEN orig["iat"] ELSE made.at
               /\ got["exp"] = got["iat"] + Timespan(made.expireTime)

C8_Witness ==
    /\ SameSecret
    /\ BeforeExpiry
    /\ out.result.ok
    /\ made.payload = [id |-> 2]
    /\ made.expireTime = "2s"
    /\ made.at = 1
    /\ out.at = 2
    /\ out.result.payload = [id |-> 2, iat |-> 1, exp |-> 3]

\* C9: verifyToken raises, and returns no payload, whenever the secret
\* differs from the one the token was created with and whenever the token's
\* expiry has elapsed; the call changes neither the token nor the clock.
C9_VerifyRaises ==
    /\ [](out # NoCall =>
            /\ out.secret # made.secret => ~out.result.ok
            /\ out.at >= Expiry(made.result.token) => ~out.result.ok
            /\ ~out.result.ok => DOMAIN out.result = {"ok", "error"})
    /\ [][out' # out /\ out' # NoCall => UNCHANGED <<now, made>>]_vars

C9_Witness ==
    /\ out # NoCall
    /\ out.secret = made.secret
    /\ out.at = Expiry(made.result.token)
    /\ out.result = Raised("jwt expired")

=============================================================================
